---- MODULE Spec2Model ----
(***************************************************************************)
(* embedapi: a Cloudflare Worker that turns text into embeddings through   *)
(* the OpenAI API and keeps them in a store.  Two variants of the worker   *)
(* exist: the Vectorize-backed one (create, retrieve, search, delete) and  *)
(* the KV-backed one (create, retrieve).  A request is handled in up to    *)
(* three steps separated by awaits: validation up to the provider call,    *)
(* the provider's reply, the store call.                                    *)
(***************************************************************************)
EXTENDS Integers, Sequences, FiniteSets, TLC

VARIABLES variant, menu, budget, store, inflight, last, made

vars == <<variant, menu, budget, store, inflight, last, made>>

----------------------------------------------------------------------------
(* Bounds of the model *)

\* requests that may be in flight (awaiting the provider or the store) at once
NumProcs == 2
\* requests a behaviour of Spec handles
MaxRequests == 2
\* requests a behaviour of SpecValidation handles
MaxProbes == 1
\* requests a behaviour of SpecRouting handles
MaxRoutes == 2

Procs == 1..NumProcs

----------------------------------------------------------------------------
(* JavaScript values: tagged records *)

JUndef == [t |-> "undef"]
JNull == [t |-> "null"]
JStr(s) == [t |-> "str", v |-> s]
JNum(n) == [t |-> "num", v |-> n]
JBool(b) == [t |-> "bool", v |-> b]
JArr(s) == [t |-> "arr", v |-> s]
JObj(f) == [t |-> "obj", v |-> f]
\* {} : an object without properties
EmptyObj == [k \in {} |-> JUndef]

\* ToBoolean, as `!x` and `if (x)` apply it
Truthy(x) ==
  CASE x.t = "undef" -> FALSE
    [] x.t = "null" -> FALSE
    [] x.t = "str" -> x.v # ""
    [] x.t = "num" -> x.v # 0
    [] x.t = "bool" -> x.v
    [] OTHER -> TRUE

\* x.k for a key k that no prototype defines (text, metadata, query, ...)
Prop(x, k) ==
  IF x.t = "obj" /\ k \in DOMAIN x.v THEN x.v[k] ELSE JUndef

\* `const { a, b } = x` throws a TypeError for null and undefined
Destructurable(x) == x.t \notin {"null", "undef"}

\* `name = dflt` in a destructuring pattern: the default replaces undefined only
Default(x, dflt) == IF x.t = "undef" THEN dflt ELSE x

\* the own enumerable properties `...x` copies into an object literal
Spread(x) ==
  CASE x.t = "obj" -> x.v
    [] x.t = "arr" ->
         [k \in {ToString(i - 1) : i \in 1..Len(x.v)} |->
            x.v[CHOOSE i \in 1..Len(x.v) : ToString(i - 1) = k]]
    [] x.t = "str" ->
         [k \in {ToString(i - 1) : i \in 1..Len(x.v)} |->
            JStr(LET i == CHOOSE j \in 1..Len(x.v) : ToString(j - 1) = k
                 IN SubSeq(x.v, i, i))]
    [] OTHER -> EmptyObj

\* { ...a, ...b } : later properties replace earlier ones of the same key
Merge(a, b) ==
  [k \in DOMAIN a \cup DOMAIN b |-> IF k \in DOMAIN b THEN b[k] ELSE a[k]]

\* JSON.stringify of an object: properties whose value is undefined are left out
Stringify(obj) ==
  [k \in {j \in DOMAIN obj : obj[j].t # "undef"} |-> obj[k]]

\* String.prototype.startsWith
StartsWith(s, prefix) ==
  Len(s) >= Len(prefix) /\ SubSeq(s, 1, Len(prefix)) = prefix

----------------------------------------------------------------------------
(* Responses *)

CORS_HEADERS_Vectorize ==
  [origin |-> "*", methods |-> "GET, POST, DELETE, OPTIONS",
   headers |-> "Content-Type, Authorization"]

CORS_HEADERS_KV ==
  [origin |-> "*", methods |-> "GET, POST, OPTIONS",
   headers |-> "Content-Type, Authorization"]

CORS_HEADERS(v) == IF v = "vectorize" THEN CORS_HEADERS_Vectorize ELSE CORS_HEADERS_KV

\* new Response(JSON.stringify(data, null, 2) + '\n', {status, headers})
jsonResponse(v, data, status) ==
  [kind |-> "response", status |-> status, ctype |-> "application/json",
   cors |-> CORS_HEADERS(v), body |-> Stringify(data), newline |-> TRUE]

\* an error sent as a bare response: new Response(message, { status })
errorResponse_Bare(v, message, status) ==
  [kind |-> "response", status |-> status, ctype |-> "text/plain",
   cors |-> EmptyObj, body |-> [error |-> JStr(message)], newline |-> FALSE]

errorResponse(v, message, status) ==
  jsonResponse(v, [error |-> JStr(message)], status)

\* an exception that leaves fetch(): the handler produced no response
Thrown ==
  [kind |-> "throw", status |-> 0, ctype |-> "none",
   cors |-> EmptyObj, body |-> EmptyObj, newline |-> FALSE]

----------------------------------------------------------------------------
(* Requests *)

\* a request body that is not JSON text; request.json() rejects on it
Garbage == [t |-> "garbage"]

\* String.prototype.trim restricted to spaces: what the Headers object does to a
\* value before get() returns it
RECURSIVE TrimLeft(_)
TrimLeft(s) ==
  IF Len(s) > 0 /\ SubSeq(s, 1, 1) = " " THEN TrimLeft(SubSeq(s, 2, Len(s))) ELSE s

RECURSIVE TrimRight(_)
TrimRight(s) ==
  IF Len(s) > 0 /\ SubSeq(s, Len(s), Len(s)) = " "
  THEN TrimRight(SubSeq(s, 1, Len(s) - 1)) ELSE s

\* request.headers.get('Authorization'): null when absent, else the value with
\* leading and trailing whitespace removed
HeadersGetAuthorization(req) ==
  IF req.auth.t = "null" THEN JNull ELSE JStr(TrimRight(TrimLeft(req.auth.v)))

\* the check with the separating space forgotten
AuthOk_NoSpace(auth) == auth.t = "str" /\ StartsWith(auth.v, "Bearer")

\* auth?.startsWith('Bearer ')
AuthOk(auth) == auth.t = "str" /\ StartsWith(auth.v, "Bearer ")

\* await request.json().catch(() => ({}))
RequestJsonOrEmpty(req) ==
  IF req.body.t = "garbage" THEN JObj(EmptyObj) ELSE req.body

\* url.pathname === '/embed' ; the path is kept as pathname.split('/')
IsPath(req, name) == req.path = <<"", name>>

\* the prefix test with the closing slash forgotten: startsWith('/embed')
UnderEmbed_NoSlash(req) ==
  Len(req.path) >= 2 /\ req.path[1] = "" /\ req.path[2] = "embed"

\* url.pathname.startsWith('/embed/')
UnderEmbed(req) ==
  Len(req.path) >= 3 /\ req.path[1] = "" /\ req.path[2] = "embed"

\* x[i] of JavaScript (0-based) on a sequence of strings: undefined past the end
At(seq, i) == IF i + 1 <= Len(seq) THEN JStr(seq[i + 1]) ELSE JUndef

\* url.pathname.split('/').filter(Boolean)
pathParts(req) == SelectSeq(req.path, LAMBDA seg : seg # "")

\* the id taken one segment too early: pathParts[0] / const [, id] = ...
PathId_SegmentBefore(v, req) ==
  IF v = "vectorize" THEN At(pathParts(req), 0) ELSE At(req.path, 1)

\* the id each variant hands to handleGet / handleDelete
PathId(v, req) ==
  IF v = "vectorize" THEN At(pathParts(req), 1) ELSE At(req.path, 2)

\* fetch(): the operation a request is dispatched to
Route(v, req) ==
  CASE req.method = "OPTIONS" -> "preflight"
    [] req.method = "POST" /\ IsPath(req, "embed") -> "create"
    [] req.method = "GET" /\ UnderEmbed(req) -> "retrieve"
    [] v = "vectorize" /\ req.method = "POST" /\ IsPath(req, "search") -> "search"
    [] v = "vectorize" /\ req.method = "DELETE" /\ UnderEmbed(req) -> "delete"
    [] OTHER -> "notfound"

\* new Response(null, { headers: CORS_HEADERS })
PreflightResponse(v) ==
  [kind |-> "response", status |-> 200, ctype |-> "none",
   cors |-> CORS_HEADERS(v), body |-> EmptyObj, newline |-> FALSE]

\* new Response('Not Found', { status: 404, headers: CORS_HEADERS })
NotFoundResponse(v) ==
  [kind |-> "response", status |-> 404, ctype |-> "text/plain",
   cors |-> CORS_HEADERS(v), body |-> [raw |-> JStr("Not Found")], newline |-> FALSE]

----------------------------------------------------------------------------
(* The store *)

\* ids Math.random().toString(36).substring(...) can produce
IdSpace == {"i1", "i2"}

\* values of new Date().toISOString()
Times == {"T1"}

NoRec == [t |-> "none"]

\* the record under an id, NoRec when there is none
Lookup(st, id) == IF id \in DOMAIN st THEN st[id] ELSE NoRec

\* a lookup that returns the records without their vectors
getByIds_WithoutValues(st, id) ==
  IF Lookup(st, id) = NoRec THEN <<>>
  ELSE <<[id |-> Lookup(st, id).id, values |-> JUndef,
          metadata |-> Lookup(st, id).metadata]>>

\* EMBEDDINGS_VECTORIZE.getByIds([id]): the live records among the ids asked for
getByIds(st, id) ==
  IF Lookup(st, id) = NoRec THEN <<>> ELSE <<Lookup(st, id)>>

\* EMBEDDINGS_KV.get(id): the stored string, null when there is none
KVGet(st, id) == IF Lookup(st, id) = NoRec THEN JNull ELSE Lookup(st, id)

\* upsert / put: the record replaces whatever the id held
Put(st, id, rec) == [st EXCEPT ![id] = rec]

\* a delete that empties the index: every record goes with the one named
Remove_All(st, id) == [i \in DOMAIN st |-> NoRec]

\* deleteByIds([id])
Remove(st, id) == IF id \in DOMAIN st THEN [st EXCEPT ![id] = NoRec] ELSE st

----------------------------------------------------------------------------
(* The handlers, one operator per stretch of code between two awaits.  Each   *)
(* yields what the handler does next: respond, call the provider, call the   *)
(* store.                                                                     *)

Respond(resp) == [k |-> "respond", resp |-> resp]
CallProvider(loc) == [k |-> "provider", loc |-> loc]
CallStore(loc) == [k |-> "store", loc |-> loc]

\* x[i] (0-based) of a value that is not null or undefined
Elem(x, i) ==
  IF x.t = "arr"
  THEN (IF i + 1 <= Len(x.v) THEN x.v[i + 1] ELSE JUndef)
  ELSE Prop(x, ToString(i))

\* the key sent without its scheme: 'Authorization': auth.slice(7)
ProviderCall_KeyOnly(v, auth, input) ==
  [authorization |-> SubSeq(auth.v, 8, Len(auth.v)),
   input |-> input, model |-> "text-embedding-3-small"]

\* the request sent to https://api.openai.com/v1/embeddings
ProviderCall(v, auth, input) ==
  [authorization |->
     IF v = "vectorize" THEN auth.v
     ELSE "Bearer " \o SubSeq(auth.v, 8, Len(auth.v)),
   input |-> input, model |-> "text-embedding-3-small"]

\* handleEmbed up to the provider call
handleEmbedStart(v, req) ==
  LET auth == HeadersGetAuthorization(req)
      body == RequestJsonOrEmpty(req)
      text == Prop(body, "text")
      metadata ==
        IF v = "vectorize" THEN Default(Prop(body, "metadata"), JObj(EmptyObj))
        ELSE JUndef
  IN IF ~AuthOk(auth)
     THEN Respond(errorResponse(v, "Missing Authorization header", 401))
     ELSE IF ~Destructurable(body)
     THEN Respond(Thrown)
     ELSE IF ~Truthy(text) \/ text.t # "str"
     THEN Respond(errorResponse(v, "Missing or invalid text field", 400))
     ELSE CallProvider([op |-> "create", text |-> text, metadata |-> metadata,
                        call |-> ProviderCall(v, auth, text)])

\* every failure of the provider answered 500
EmbedFailureStatus_Always500(v, reply) == 500

\* every failure of the provider answered with the provider's status
EmbedFailureStatus_Forwarded(v, reply) == reply.status

\* the status handleEmbed answers with when the provider's status is not ok
EmbedFailureStatus(v, reply) == IF v = "vectorize" THEN reply.status ELSE 500

\* the spread written first: { ...metadata, text, timestamp }
EmbedMetadata_SpreadFirst(text, now, metadata) ==
  Merge(Spread(metadata), [text |-> text, timestamp |-> JStr(now)])

\* the metadata handleEmbed stores: { text, timestamp, ...metadata }
EmbedMetadata(text, now, metadata) ==
  Merge([text |-> text, timestamp |-> JStr(now)], Spread(metadata))

\* the string the KV variant stores
EmbedValue(text, embedding, now) ==
  [t |-> "json",
   v |-> Stringify([text |-> text, embedding |-> embedding, timestamp |-> JStr(now)])]

\* handleEmbed without its test of response.ok: the store call follows any reply
handleEmbedReply_StoreRegardless(v, loc, reply) ==
  CallStore([op |-> "create", text |-> loc.text, metadata |-> loc.metadata,
             embedding |-> Prop(Elem(Prop(reply.body, "data"), 0), "embedding")])

\* handleEmbed from the provider's reply to the store call
handleEmbedReply(v, loc, reply) ==
  IF ~reply.ok
  THEN Respond(errorResponse(v, "Failed to generate embedding",
                             EmbedFailureStatus(v, reply)))
  ELSE IF reply.body.t = "garbage" \/ ~Destructurable(reply.body)
  THEN Respond(Thrown)
  ELSE LET data == Prop(reply.body, "data")
           first == Elem(data, 0)
           throws == ~Destructurable(data) \/ ~Destructurable(first)
           embedding == Prop(first, "embedding")
       IN IF v = "vectorize"
          THEN IF throws
               THEN Respond(errorResponse(v, "Failed to store embedding", 500))
               ELSE CallStore([op |-> "create", text |-> loc.text,
                               metadata |-> loc.metadata, embedding |-> embedding])
          ELSE IF throws
               THEN Respond(Thrown)
               ELSE CallStore([op |-> "create", text |-> loc.text,
                               metadata |-> loc.metadata, embedding |-> embedding])

\* the record handleEmbed hands to upsert / put; id is the value of
\* Math.random().toString(36).substring(...), now of new Date().toISOString()
EmbedRecord(v, loc, id, now) ==
  IF v = "vectorize"
  THEN [id |-> id, values |-> loc.embedding,
        metadata |-> EmbedMetadata(loc.text, now, loc.metadata)]
  ELSE EmbedValue(loc.text, loc.embedding, now)

\* the response of handleEmbed once the store call has returned ...
EmbedStored(v, id) == jsonResponse(v, [id |-> JStr(id)], 200)

\* ... or has thrown
EmbedStoreFailed(v) ==
  IF v = "vectorize" THEN errorResponse(v, "Failed to store embedding", 500)
  ELSE Thrown

\* the lookup's miss reported as a failure of the store
EmbeddingNotFound_As500(v) == errorResponse(v, "Failed to retrieve embedding", 500)

\* the response of handleGet when the store has no record for the id
EmbeddingNotFound(v) == errorResponse(v, "Embedding not found", 404)

\* handleGet, given what the store holds; fault: the store call throws
handleGet(v, id, st, fault) ==
  IF ~Truthy(id) THEN errorResponse(v, "Missing ID parameter", 400)
  ELSE IF v = "vectorize"
  THEN IF fault THEN errorResponse(v, "Failed to retrieve embedding", 500)
       ELSE LET results == getByIds(st, id.v)
            IN IF Len(results) = 0
               THEN EmbeddingNotFound(v)
               ELSE LET vector == results[1]
                    IN jsonResponse(v,
                         [id |-> JStr(vector.id),
                          text |-> Prop(JObj(vector.metadata), "text"),
                          embedding |-> vector.values,
                          timestamp |-> Prop(JObj(vector.metadata), "timestamp")],
                         200)
  ELSE IF fault THEN Thrown
       ELSE LET data == KVGet(st, id.v)
            IN IF data.t = "null"
               THEN EmbeddingNotFound(v)
               ELSE LET parsed == JObj(data.v)
                    IN jsonResponse(v,
                         [id |-> id,
                          text |-> Prop(parsed, "text"),
                          embedding |-> Prop(parsed, "embedding"),
                          timestamp |-> Prop(parsed, "timestamp")],
                         200)

\* handleDelete without its catch branch: a failure of the store goes unreported
handleDelete_IgnoresFailure(v, id, fault) ==
  IF ~Truthy(id) THEN errorResponse(v, "Missing ID parameter", 400)
  ELSE jsonResponse(v, [message |-> JStr("Embedding deleted successfully"),
                        id |-> id], 200)

\* handleDelete: the response; the store drops the id unless the call throws
handleDelete(v, id, fault) ==
  IF ~Truthy(id) THEN errorResponse(v, "Missing ID parameter", 400)
  ELSE IF fault THEN errorResponse(v, "Failed to delete embedding", 500)
  ELSE jsonResponse(v, [message |-> JStr("Embedding deleted successfully"),
                        id |-> id], 200)

\* handleSearch up to the provider call
handleSearchStart(v, req) ==
  LET auth == HeadersGetAuthorization(req)
      body == RequestJsonOrEmpty(req)
      query == Prop(body, "query")
      topK == Default(Prop(body, "topK"), JNum(5))
      filter == Prop(body, "filter")
  IN IF ~AuthOk(auth)
     THEN Respond(errorResponse(v, "Missing Authorization header", 401))
     ELSE IF ~Destructurable(body)
     THEN Respond(Thrown)
     ELSE IF ~Truthy(query) \/ query.t # "str"
     THEN Respond(errorResponse(v, "Missing or invalid query field", 400))
     ELSE CallProvider([op |-> "search", query |-> query, topK |-> topK,
                        filter |-> filter,
                        call |-> ProviderCall(v, auth, query)])

\* the options without the line that adds the filter
SearchOptions_NoFilter(topK, filter) ==
  [topK |-> topK, returnMetadata |-> JBool(TRUE)]

\* searchOptions = { topK, returnMetadata: true }, plus filter when it is truthy
SearchOptions(topK, filter) ==
  Stringify([topK |-> topK, returnMetadata |-> JBool(TRUE),
             filter |-> IF Truthy(filter) THEN filter ELSE JUndef])

\* embedding?.length || 0
Dimensions(embedding) ==
  IF embedding.t \in {"arr", "str"} THEN Len(embedding.v) ELSE 0

\* handleSearch from the provider's reply to the store call
handleSearchReply(v, loc, reply) ==
  IF ~reply.ok
  THEN Respond(errorResponse(v, "OpenAI API failed: " \o reply.raw, reply.status))
  ELSE IF reply.body.t = "garbage"
  THEN Respond(errorResponse(v, "Search failed: Unexpected token", 500))
  ELSE IF ~Destructurable(reply.body)
  THEN Respond(errorResponse(v, "Search failed: Cannot read properties", 500))
  ELSE LET data == Prop(reply.body, "data")
           first == Elem(data, 0)
           embedding == Prop(first, "embedding")
       IN IF ~Truthy(data) \/ ~Truthy(first) \/ ~Truthy(embedding)
          THEN Respond(errorResponse(v, "Invalid response from OpenAI: " \o reply.raw,
                                     500))
          ELSE IF embedding.t # "arr" \/ Len(embedding.v) = 0
          THEN Respond(errorResponse(v,
                 "Invalid embedding data received: "
                   \o ToString(Dimensions(embedding)) \o " dimensions", 500))
          ELSE CallStore([op |-> "search", query |-> loc.query,
                          embedding |-> embedding,
                          options |-> SearchOptions(loc.topK, loc.filter)])

\* match => ({ id: match.id, score: match.score, text: match.metadata?.text })
SearchEntry(match) ==
  JObj(Stringify([id |-> JStr(match.id), score |-> JNum(match.score),
                  text |-> Prop(match.metadata, "text")]))

\* results.matches.map(...)
MapMatches(matches) == [i \in 1..Len(matches) |-> SearchEntry(matches[i])]

\* the response of handleSearch once the store's query has returned ...
SearchDone(v, loc, matches) ==
  jsonResponse(v, [query |-> loc.query, results |-> JArr(MapMatches(matches))], 200)

\* ... or has thrown
SearchFailed(v) == errorResponse(v, "Search failed: store error", 500)

\* scores the store may attach to a match
Scores == {3, 7}

\* the ids with a record
Live(st) == {i \in DOMAIN st : st[i] # NoRec}

\* the most matches a query with these options returns
QueryLimit(st, options) ==
  LET n == Cardinality(Live(st))
  IN IF options.topK.t = "num" /\ options.topK.v >= 0 /\ options.topK.v < n
     THEN options.topK.v ELSE n

\* EMBEDDINGS_VECTORIZE.query(vector, options): the answers the store may give,
\* any ranking of any of the live records within topK, each with its metadata
QueryResults(st, options) ==
  LET ranks == UNION {[1..n -> Live(st)] : n \in 0..QueryLimit(st, options)}
      oneToOne(r) == \A i, j \in DOMAIN r : r[i] = r[j] => i = j
  IN UNION {{[i \in DOMAIN r |->
                [id |-> r[i], score |-> sc[i], metadata |-> JObj(st[r[i]].metadata)]]
              : sc \in [DOMAIN r -> Scores]}
            : r \in {x \in ranks : oneToOne(x)}}

----------------------------------------------------------------------------
(* The environment: the requests clients send and the provider's replies *)

Variants == {"vectorize", "kv"}

Req(method, path, auth, body) ==
  [method |-> method, path |-> path, auth |-> auth, body |-> body]

Bearer == JStr("Bearer k")

\* bodies of create requests that pass validation
CreateBodies ==
  {JObj([text |-> JStr("a")]),
   JObj([text |-> JStr("b"),
         metadata |-> JObj([category |-> JStr("x"),
                            timestamp |-> JStr("2024-01-15")])]),
   JObj([text |-> JStr("a"), metadata |-> JObj([text |-> JStr("z")])])}

\* bodies of search requests that pass validation
SearchBodies == {JObj([query |-> JStr("q")])}

\* the requests of a workload: every route, and a rejected request
Workload ==
  {Req("POST", <<"", "embed">>, Bearer, b) : b \in CreateBodies}
  \cup {Req("POST", <<"", "search">>, Bearer, b) : b \in SearchBodies}
  \cup {Req("GET", <<"", "embed", "i1">>, JNull, Garbage),
        Req("GET", <<"", "embed", "">>, JNull, Garbage),
        Req("DELETE", <<"", "embed", "i1">>, JNull, Garbage),
        Req("POST", <<"", "embed">>, JNull, JObj([text |-> JStr("a")])),
        Req("OPTIONS", <<"", "embed">>, JNull, Garbage)}

\* Authorization headers as clients send them
AuthHeaders ==
  {JNull, JStr(""), JStr("Bearer"), JStr("Bearer "), JStr("Basic token"),
   JStr("InvalidFormat"), JStr("bearer k"), Bearer}

\* values of the field a request must carry, and of the whole body
FieldValues ==
  {JNull, JStr(""), JNum(123), JBool(TRUE), JArr(<<>>), JObj(EmptyObj), JStr("a")}

ProbeBodies(field) ==
  {Garbage, JNull, JNum(1), JStr("s"), JBool(FALSE), JArr(<<>>), JObj(EmptyObj),
   JObj([notText |-> JStr("value")])}
  \cup {JObj([k \in {field} |-> x]) : x \in FieldValues}

\* the requests that probe validation: every header with every body, on both
\* validating routes, and one request of each other route
Probes ==
  {Req("POST", <<"", "embed">>, a, b) : a \in AuthHeaders, b \in ProbeBodies("text")}
  \cup {Req("POST", <<"", "search">>, a, b) :
          a \in AuthHeaders, b \in ProbeBodies("query")}
  \cup {Req("GET", <<"", "embed", "i1">>, JNull, Garbage),
        Req("DELETE", <<"", "embed", "i1">>, JNull, Garbage),
        Req("OPTIONS", <<"", "embed">>, JNull, Garbage)}

\* methods and paths that probe the dispatcher: /embed, /embed/, /embed/i1,
\* /search, /search/, /unknown, /embeddings/i1
Methods == {"OPTIONS", "GET", "POST", "DELETE", "PUT"}

Paths ==
  {<<"", "embed">>, <<"", "embed", "">>, <<"", "embed", "i1">>, <<"", "search">>,
   <<"", "search", "">>, <<"", "unknown">>, <<"", "embeddings", "i1">>}

\* a body that passes the validation of create and of search, with the flags
\* of a search set against their defaults
ProbeBody ==
  JObj([text |-> JStr("a"), query |-> JStr("q"), includeValues |-> JBool(TRUE),
        includeMetadata |-> JBool(FALSE), returnSimilarityScores |-> JBool(FALSE)])

\* search bodies that set topK and a filter (ProbeBody sets neither)
SearchProbeBodies ==
  {JObj([query |-> JStr("q"), topK |-> JNum(1),
         filter |-> JObj([category |-> JStr("x")])]),
   JObj([query |-> JStr("q"), topK |-> JNum(2), filter |-> JObj(EmptyObj)])}

\* every method on every path, with a header and a body that pass validation,
\* the searches with options, and a create without a header
RouteProbes ==
  {Req(m, p, Bearer, ProbeBody) : m \in Methods, p \in Paths}
  \cup {Req("POST", <<"", "search">>, Bearer, b) : b \in SearchProbeBodies}
  \cup {Req("POST", <<"", "embed">>, JNull, ProbeBody)}

Reply(ok, status, raw, body) ==
  [ok |-> ok, status |-> status, raw |-> raw, body |-> body]

\* the vectors the provider computes
Vectors == {JArr(<<1, 2>>)}

\* what the provider may answer: a failure status, or a success status with a
\* body that is no JSON, JSON of another shape, or { data: [{ embedding }] }
Replies ==
  {Reply(FALSE, 429, "rate limited", Garbage),
   Reply(FALSE, 500, "server error", Garbage),
   Reply(TRUE, 200, "<html>", Garbage),
   Reply(TRUE, 200, "null", JNull),
   Reply(TRUE, 200, "{data:[]}", JObj([data |-> JArr(<<>>)])),
   Reply(TRUE, 200, "{data:[{}]}", JObj([data |-> JArr(<<JObj(EmptyObj)>>)])),
   Reply(TRUE, 200, "{data:[{embedding:[]}]}",
         JObj([data |-> JArr(<<JObj([embedding |-> JArr(<<>>)])>>)]))}
  \cup {Reply(TRUE, 200, "{data:[{embedding:[..]}]}",
              JObj([data |-> JArr(<<JObj([embedding |-> e])>>)])) : e \in Vectors}

----------------------------------------------------------------------------
(* State *)

Idle == [pc |-> "idle"]

\* what a create asked to keep: the text and the metadata of its request, and the
\* vector the provider computed for it
Asked(req, embedding) ==
  [text |-> Prop(req.body, "text"), metadata |-> Prop(req.body, "metadata"),
   embedding |-> embedding]

NoLoc == [op |-> "none"]

\* the request answered last and its response; n counts the answers, calls is
\* what passed between the handler and its collaborators, in order
Answer(n, req, route, resp, loc, overlap, calls) ==
  [n |-> n, req |-> req, route |-> route, resp |-> resp, loc |-> loc,
   overlap |-> overlap, calls |-> calls]

NoRequest == Req("", <<>>, JNull, Garbage)

\* the requests clients send in this run
Requests ==
  CASE menu = "probes" -> Probes
    [] menu = "routes" -> RouteProbes
    [] OTHER -> Workload

TypeOK ==
  /\ variant \in Variants
  /\ menu \in {"workload", "probes", "routes"}
  /\ budget \in Nat
  /\ DOMAIN store = IdSpace
  /\ DOMAIN inflight = Procs
  /\ \A p \in Procs : inflight[p].pc \in {"idle", "provider", "store"}

\* an earlier create: text "a", no metadata
EarlierRequest == Req("POST", <<"", "embed">>, Bearer, JObj([text |-> JStr("a")]))

\* its locals once the provider has answered with a vector, as handleEmbedStart
\* and handleEmbedReply leave them
EarlierCreate(v) ==
  handleEmbedReply(v, handleEmbedStart(v, EarlierRequest).loc,
    Reply(TRUE, 200, "{data:[{embedding:[..]}]}",
          JObj([data |-> JArr(<<JObj([embedding |-> JArr(<<1, 2>>)])>>)]))).loc

\* the worker starts on an empty store, or on one that holds the record an
\* earlier create wrote under i1
InitWith(which, n) ==
  /\ variant \in Variants
  /\ menu = which
  /\ budget = n
  /\ inflight = [p \in Procs |-> Idle]
  /\ last = Answer(0, NoRequest, "none", Thrown, NoLoc, {}, <<>>)
  /\ \E earlier \in BOOLEAN :
       LET loc == EarlierCreate(variant)
           empty == [i \in IdSpace |-> NoRec]
       IN IF earlier
          THEN /\ store = Put(empty, "i1", EmbedRecord(variant, loc, "i1", "T1"))
               /\ made = Put(empty, "i1", Asked(EarlierRequest, loc.embedding))
          ELSE /\ store = empty
               /\ made = empty

Init == InitWith("workload", MaxRequests)

InitValidation == InitWith("probes", MaxProbes)

InitRouting == InitWith("routes", MaxRoutes)

\* the slot a request that has to wait takes: the first idle one
FreeSlot(p) ==
  /\ inflight[p].pc = "idle"
  /\ \A q \in Procs : q < p => inflight[q].pc # "idle"

----------------------------------------------------------------------------
(* Actions *)

\* entries of the record of calls: a call to the provider, the response it
\* came back with (response.ok, response.status, the text of its body and what
\* response.json() makes of it), a call to the store
CallProviderEvent == [e |-> "call provider"]
Outcome(reply) ==
  [e |-> "provider replied", ok |-> reply.ok, status |-> reply.status,
   raw |-> reply.raw, body |-> reply.body]
CallStoreEvent == [e |-> "call store"]

\* fetch() on a create or search request, up to its response or provider call
Arrive(req) ==
  /\ budget > 0
  /\ req \in Requests
  /\ Route(variant, req) \in {"create", "search"}
  /\ LET r == IF Route(variant, req) = "create"
              THEN handleEmbedStart(variant, req)
              ELSE handleSearchStart(variant, req)
     IN IF r.k = "respond"
        THEN /\ last' = Answer(last.n + 1, req, Route(variant, req), r.resp, NoLoc, {},
                               <<>>)
             /\ UNCHANGED inflight
        ELSE /\ \E p \in Procs :
                  /\ FreeSlot(p)
                  /\ inflight' = [inflight EXCEPT ![p] =
                       [pc |-> "provider", req |-> req, route |-> Route(variant, req),
                        loc |-> r.loc, calls |-> <<CallProviderEvent>>]]
             /\ UNCHANGED last
  /\ budget' = budget - 1
  /\ UNCHANGED <<variant, menu, store, made>>

\* the provider's reply reaches a waiting handler
ProviderReply(p, reply) ==
  /\ inflight[p].pc = "provider"
  /\ LET slot == inflight[p]
         r == IF slot.route = "create"
              THEN handleEmbedReply(variant, slot.loc, reply)
              ELSE handleSearchReply(variant, slot.loc, reply)
         returned == Append(slot.calls, Outcome(reply))
     IN IF r.k = "respond"
        THEN /\ last' = Answer(last.n + 1, slot.req, slot.route, r.resp, slot.loc, {},
                               returned)
             /\ inflight' = [inflight EXCEPT ![p] = Idle]
        ELSE /\ inflight' = [inflight EXCEPT ![p].pc = "store", ![p].loc = r.loc,
                                             ![p].calls = Append(returned, CallStoreEvent)]
             /\ UNCHANGED last
  /\ UNCHANGED <<variant, menu, budget, store, made>>

\* the creates being handled beside the one of slot p
Beside(p) ==
  {q \in Procs : q # p /\ inflight[q].pc # "idle" /\ inflight[q].route = "create"}

\* upsert / put of a create returns or throws, and handleEmbed responds.  The id
\* and the timestamp, fixed just before the call, show only in the record it
\* writes, so they are drawn here.
StoreWrite(p, id, now, fault) ==
  /\ inflight[p].pc = "store"
  /\ inflight[p].route = "create"
  /\ LET slot == inflight[p]
         loc == slot.loc @@ [id |-> id, now |-> now]
     IN IF fault
        THEN /\ last' = Answer(last.n + 1, slot.req, "create",
                               EmbedStoreFailed(variant), loc, Beside(p), slot.calls)
             /\ UNCHANGED <<store, made>>
        ELSE /\ store' = Put(store, id, EmbedRecord(variant, slot.loc, id, now))
             /\ made' = [made EXCEPT ![id] = Asked(slot.req, loc.embedding)]
             /\ last' = Answer(last.n + 1, slot.req, "create",
                               EmbedStored(variant, id), loc, Beside(p), slot.calls)
  /\ inflight' = [inflight EXCEPT ![p] = Idle]
  /\ UNCHANGED <<variant, menu, budget>>

\* query of a search returns or throws, and handleSearch responds
StoreQuery(p, fault) ==
  /\ inflight[p].pc = "store"
  /\ inflight[p].route = "search"
  /\ LET slot == inflight[p]
     IN IF fault
        THEN last' = Answer(last.n + 1, slot.req, "search", SearchFailed(variant),
                            slot.loc, {}, slot.calls)
        ELSE \E matches \in QueryResults(store, slot.loc.options) :
               last' = Answer(last.n + 1, slot.req, "search",
                              SearchDone(variant, slot.loc, matches),
                              slot.loc @@ [matches |-> matches],
                              {}, slot.calls)
  /\ inflight' = [inflight EXCEPT ![p] = Idle]
  /\ UNCHANGED <<variant, menu, budget, store, made>>

\* handleGet and handleDelete reach their store call when `!id` is false
StoreCallFor(id) == IF Truthy(id) THEN <<CallStoreEvent>> ELSE <<>>

\* fetch() on a retrieve request: handleGet with its one store call
Retrieve(req, fault) ==
  /\ budget > 0
  /\ req \in Requests
  /\ Route(variant, req) = "retrieve"
  /\ last' = Answer(last.n + 1, req, "retrieve",
                    handleGet(variant, PathId(variant, req), store, fault),
                    [op |-> "retrieve", id |-> PathId(variant, req), fault |-> fault],
                    {}, StoreCallFor(PathId(variant, req)))
  /\ budget' = budget - 1
  /\ UNCHANGED <<variant, menu, store, inflight, made>>

\* fetch() on a delete request: handleDelete with its one store call
Delete(req, fault) ==
  /\ budget > 0
  /\ req \in Requests
  /\ Route(variant, req) = "delete"
  /\ LET id == PathId(variant, req)
         called == Truthy(id) /\ ~fault
     IN /\ last' = Answer(last.n + 1, req, "delete", handleDelete(variant, id, fault),
                          [op |-> "delete", id |-> id, fault |-> fault], {},
                          StoreCallFor(id))
        /\ store' = IF called THEN Remove(store, id.v) ELSE store
        /\ made' = IF called THEN Remove(made, id.v) ELSE made
  /\ budget' = budget - 1
  /\ UNCHANGED <<variant, menu, inflight>>

\* fetch() on a preflight or on a request no route matches
Other(req) ==
  /\ budget > 0
  /\ req \in Requests
  /\ Route(variant, req) \in {"preflight", "notfound"}
  /\ last' = Answer(last.n + 1, req, Route(variant, req),
                    IF Route(variant, req) = "preflight"
                    THEN PreflightResponse(variant) ELSE NotFoundResponse(variant),
                    NoLoc, {}, <<>>)
  /\ budget' = budget - 1
  /\ UNCHANGED <<variant, menu, store, inflight, made>>

Next ==
  \/ \E req \in Requests : Arrive(req)
  \/ \E p \in Procs, reply \in Replies : ProviderReply(p, reply)
  \/ \E p \in Procs, id \in IdSpace, now \in Times, fault \in BOOLEAN :
       StoreWrite(p, id, now, fault)
  \/ \E p \in Procs, fault \in BOOLEAN : StoreQuery(p, fault)
  \/ \E req \in Requests, fault \in BOOLEAN : Retrieve(req, fault)
  \/ \E req \in Requests, fault \in BOOLEAN : Delete(req, fault)
  \/ \E req \in Requests : Other(req)

\* a workload of requests of every route
Spec == Init /\ [][Next]_vars

\* the validating routes probed with every header and body
SpecValidation == InitValidation /\ [][Next]_vars

\* the dispatcher probed with every method on every path
SpecRouting == InitRouting /\ [][Next]_vars

----------------------------------------------------------------------------
(* Properties *)

\* the last answer is a JSON error response of this status and message
IsError(a, status, message) ==
  /\ a.resp.kind = "response"
  /\ a.resp.status = status
  /\ a.resp.ctype = "application/json"
  /\ a.resp.body = [error |-> JStr(message)]

\* an Authorization header that starts with 'Bearer ' and goes on with a token
HasBearerToken(auth) ==
  /\ auth.t = "str"
  /\ Len(auth.v) > 7
  /\ SubSeq(auth.v, 1, 7) = "Bearer "
  /\ \E i \in 8..Len(auth.v) : SubSeq(auth.v, i, i) # " "

\* a body that is an object with a non-empty string under the field
CarriesString(body, field) ==
  /\ body.t = "obj"
  /\ field \in DOMAIN body.v
  /\ body.v[field].t = "str"
  /\ body.v[field].v # ""

\* the field a validating route requires, and the message when it is missing
FieldOf(route) == IF route = "create" THEN "text" ELSE "query"
FieldMessage(route) ==
  IF route = "create" THEN "Missing or invalid text field"
  ELSE "Missing or invalid query field"

\* C1: a create or search request whose Authorization header is absent or is
\* not 'Bearer ' followed by a token is answered 401 with the error
\* 'Missing Authorization header', whatever its body is.
C1_MissingAuthIs401 ==
  (last.route \in {"create", "search"} /\ ~HasBearerToken(last.req.auth))
    => IsError(last, 401, "Missing Authorization header")

\* a search with the header 'Bearer ' and a body that is no JSON was answered 401
C1_Witness ==
  /\ last.route = "search"
  /\ last.req.auth = JStr("Bearer ")
  /\ last.req.body = Garbage
  /\ last.resp.status = 401

\* C2: a create or search request with a valid Bearer header whose body is
\* unparseable, or is any JSON value without a non-empty string under text
\* (query for search), is answered 400 with the message of that field.
C2_InvalidFieldIs400 ==
  (/\ last.route \in {"create", "search"}
   /\ HasBearerToken(last.req.auth)
   /\ ~CarriesString(last.req.body, FieldOf(last.route)))
    => IsError(last, 400, FieldMessage(last.route))

\* the id a retrieve or delete named, when it is one the store may hold
NamedId(a) == a.loc.id.t = "str" /\ a.loc.id.v \in IdSpace

\* a create that was answered 200
CreatedOk(a) ==
  a.route = "create" /\ a.resp.kind = "response" /\ a.resp.status = 200

\* got is an object that has every key of the object m with m's value
Contains(got, m) ==
  /\ got.t = "obj"
  /\ m.t = "obj" => \A k \in DOMAIN m.v : k \in DOMAIN got.v /\ got.v[k] = m.v[k]

\* C3: a retrieve of an id a create returned (no delete of it since) responds 200
\* with the text of that create, the vector the provider returned for it, and
\* metadata that contains every key and value of the create's metadata.
C3_RoundTrip ==
  (/\ last.route = "retrieve"
   /\ NamedId(last)
   /\ ~last.loc.fault
   /\ made[last.loc.id.v] # NoRec)
    => LET asked == made[last.loc.id.v]
           body == JObj(last.resp.body)
       IN /\ last.resp.kind = "response"
          /\ last.resp.status = 200
          /\ Prop(body, "text") = asked.text
          /\ Prop(body, "embedding") = asked.embedding
          /\ Contains(Prop(body, "metadata"), asked.metadata)

\* a retrieve that named an id without a record
MissedRetrieve(a) ==
  a.route = "retrieve" /\ NamedId(a) /\ store[a.loc.id.v] = NoRec

\* C4 as stated: a retrieve of a non-empty id that has no live record responds
\* 404 with the error 'Embedding not found'.
C4_MissingIs404 ==
  MissedRetrieve(last) => IsError(last, 404, "Embedding not found")

\* C4 as amended: it responds 404 'Embedding not found' when the store's lookup
\* returns; when the lookup throws, the Vectorize variant responds 500
\* 'Failed to retrieve embedding'.
C4_MissingIs404UnlessStoreFails ==
  MissedRetrieve(last) =>
    /\ ~last.loc.fault => IsError(last, 404, "Embedding not found")
    /\ (last.loc.fault /\ variant = "vectorize")
         => IsError(last, 500, "Failed to retrieve embedding")

\* the record of i1 is gone and a retrieve of i1 was answered 404
C4_Witness ==
  /\ MissedRetrieve(last)
  /\ last.loc.id = JStr("i1")
  /\ ~last.loc.fault
  /\ budget < MaxRequests - 1
  /\ last.resp.status = 404

\* C5: creates handled concurrently with distinct texts all respond 200 with
\* pairwise distinct ids: when a create answers 200 right after another did, and
\* was being handled when that one answered, the two ids differ.
C5_ConcurrentIdsDistinct ==
  [][(/\ CreatedOk(last)
      /\ CreatedOk(last')
      /\ last'.n = last.n + 1
      /\ \E q \in last.overlap :
           /\ inflight[q].pc = "store"
           /\ inflight'[q].pc = "idle"
           /\ inflight[q].loc.text # last.loc.text)
       => last'.resp.body.id # last.resp.body.id]_vars

\* C6: a successful search responds {query, results, total}: one entry per match
\* of the store in the store's order, each with the match's id, score and
\* metadata text, and total the number of entries.
C6_SearchShape ==
  (last.route = "search" /\ last.resp.kind = "response" /\ last.resp.status = 200)
    => LET body == last.resp.body
           matches == last.loc.matches
       IN /\ DOMAIN body = {"query", "results", "total"}
          /\ body.query = Prop(last.req.body, "query")
          /\ body.results.t = "arr"
          /\ Len(body.results.v) = Len(matches)
          /\ \A i \in 1..Len(matches) :
               /\ Prop(body.results.v[i], "id") = JStr(matches[i].id)
               /\ Prop(body.results.v[i], "score") = JNum(matches[i].score)
               /\ Prop(body.results.v[i], "text") = Prop(matches[i].metadata, "text")
          /\ body.total = JNum(Len(body.results.v))

\* C7: whatever the collaborators do, the handler returns an HTTP response, and
\* one that reports a failure has the JSON body {error: message}; no exception
\* leaves fetch().
C7_NoExceptionEscapes ==
  last.n > 0 =>
    /\ last.resp.kind = "response"
    /\ last.resp.status >= 400 /\ last.route # "notfound"
         => (DOMAIN last.resp.body = {"error"} /\ last.resp.body.error.t = "str")

\* a record that has a vector, a text and a timestamp
Complete(v, rec) ==
  IF v = "vectorize"
  THEN /\ rec.values.t = "arr"
       /\ {"text", "timestamp"} \subseteq DOMAIN rec.metadata
  ELSE {"text", "embedding", "timestamp"} \subseteq DOMAIN rec.v

\* C8: a create either responds 200 with an id and has written exactly one
\* record (vector, text, metadata) under that id, or responds with an error
\* status and leaves the store as it was.
C8_CreateAllOrNothing ==
  [][(last'.n = last.n + 1 /\ last'.route = "create")
       => \/ /\ CreatedOk(last')
             /\ last'.resp.body.id.v \in IdSpace
             /\ store'[last'.resp.body.id.v] # NoRec
             /\ Complete(variant, store'[last'.resp.body.id.v])
             /\ \A i \in IdSpace \ {last'.resp.body.id.v} : store'[i] = store[i]
          \/ /\ last'.resp.kind = "response"
             /\ last'.resp.status >= 400
             /\ store' = store]_vars

\* C9: a live record keeps the vector, text and timestamp it was created with;
\* no operation replaces it, and it disappears only by a delete of its id.
C9_RecordsImmutable ==
  [][\A i \in IdSpace :
       store[i] # NoRec =>
         \/ store'[i] = store[i]
         \/ /\ store'[i] = NoRec
            /\ last'.route = "delete"
            /\ last'.loc.id = JStr(i)]_vars

\* the text and the timestamp of a stored record
StoredField(v, rec, k) == IF v = "vectorize" THEN rec.metadata[k] ELSE rec.v[k]

\* the metadata mapping the caller of a create supplied
CallerMetadata(a) == Spread(Prop(a.req.body, "metadata"))

\* C10 as stated: the record a successful create writes has the request's text
\* as metadata.text and the handler's creation time as metadata.timestamp,
\* whatever metadata the caller supplied.
C10_SystemFieldsWin ==
  CreatedOk(last) =>
    LET rec == store[last.resp.body.id.v]
    IN /\ StoredField(variant, rec, "text") = Prop(last.req.body, "text")
       /\ StoredField(variant, rec, "timestamp") = JStr(last.loc.now)

\* the value the store holds under a system field k after a create: the caller's
\* when the Vectorize variant got metadata with the key k, else the handler's
Expected(a, k, own) ==
  IF variant = "vectorize" /\ k \in DOMAIN CallerMetadata(a)
  THEN CallerMetadata(a)[k] ELSE own

\* C10 as amended: metadata.text is the request's text and metadata.timestamp
\* the handler's creation time unless the caller's metadata has that key; in the
\* Vectorize variant a caller-supplied text or timestamp replaces the handler's
\* value (the KV variant stores no caller metadata).
C10_CallerFieldsWin ==
  CreatedOk(last) =>
    LET rec == store[last.resp.body.id.v]
    IN /\ StoredField(variant, rec, "text")
            = Expected(last, "text", Prop(last.req.body, "text"))
       /\ StoredField(variant, rec, "timestamp")
            = Expected(last, "timestamp", JStr(last.loc.now))

\* a create with text "a" and metadata {text: "z"} stored "z" as the text
C10_Witness ==
  /\ CreatedOk(last)
  /\ variant = "vectorize"
  /\ Prop(last.req.body, "text") = JStr("a")
  /\ "text" \in DOMAIN CallerMetadata(last)
  /\ store[last.resp.body.id.v].metadata.text = JStr("z")

\* the path /embed/{id}: /embed/ and whatever follows it
IdPath(path) == Len(path) >= 3 /\ path[1] = "" /\ path[2] = "embed"

\* the routing table as the specification prints it
TableOperation(req) ==
  CASE req.method = "OPTIONS" -> "preflight"
    [] req.method = "POST" /\ req.path = <<"", "embed">> -> "create"
    [] req.method = "GET" /\ IdPath(req.path) -> "retrieve"
    [] req.method = "POST" /\ req.path = <<"", "search">> -> "search"
    [] req.method = "DELETE" /\ IdPath(req.path) -> "delete"
    [] OTHER -> "notfound"

\* the table of a variant: the KV variant has no search and no delete
TableOperationOf(v, req) ==
  IF v = "kv" /\ TableOperation(req) \in {"search", "delete"}
  THEN "notfound" ELSE TableOperation(req)

\* the answer to a request is the one of the operation op: a preflight is
\* answered 200 with an empty body, an unmatched request 404 with the plain text
\* 'Not Found' and without a call to a collaborator
AnsweredAs(a, op) ==
  /\ a.route = op
  /\ op = "preflight" =>
       (a.resp.kind = "response" /\ a.resp.status = 200 /\ a.resp.body = EmptyObj)
  /\ op = "notfound" =>
       /\ a.resp.kind = "response"
       /\ a.resp.status = 404
       /\ a.resp.ctype = "text/plain"
       /\ a.resp.body = [raw |-> JStr("Not Found")]
       /\ a.calls = <<>>

\* C11 as stated: every (method, path) is dispatched to the one operation the
\* routing table gives it, and every combination outside the table is answered
\* 404 'Not Found' without a call to a collaborator.
C11_RoutingTable ==
  last.n > 0 => AnsweredAs(last, TableOperation(last.req))

\* C11 as amended: the table holds in the Vectorize variant; the KV variant has
\* the rows of preflight, create and retrieve only, and answers POST /search
\* and DELETE /embed/{id} 404 'Not Found' like any unmatched route.
C11_RoutingTableOfVariant ==
  last.n > 0 => AnsweredAs(last, TableOperationOf(variant, last.req))

\* the KV variant answered POST /search with 404 'Not Found'
C11_Witness ==
  /\ variant = "kv"
  /\ last.req.method = "POST"
  /\ last.req.path = <<"", "search">>
  /\ last.route = "notfound"
  /\ last.resp.status = 404

\* the three CORS headers on a response
HasCors(resp) ==
  /\ DOMAIN resp.cors = {"origin", "methods", "headers"}
  /\ resp.cors.origin = "*"
  /\ resp.cors.methods # ""
  /\ resp.cors.headers = "Content-Type, Authorization"

\* C12: every response, of any route and outcome, carries the three CORS
\* headers; every response other than a preflight's and 'Not Found' has the
\* content type application/json and a body that ends in a newline.
C12_CorsAndJson ==
  (last.n > 0 /\ last.resp.kind = "response") =>
    /\ HasCors(last.resp)
    /\ last.route \notin {"preflight", "notfound"} =>
         (last.resp.ctype = "application/json" /\ last.resp.newline)

\* a delete the store failed was answered 500 with the headers and the newline
C12_Witness ==
  /\ last.route = "delete"
  /\ last.resp.status = 500
  /\ HasCors(last.resp)
  /\ last.resp.newline

\* the provider's response in the record of calls of an answer, when the
\* provider was called and came back with a status that is not a success
ProviderFailed(a) ==
  /\ a.route \in {"create", "search"}
  /\ Len(a.calls) >= 2
  /\ a.calls[2].e = "provider replied"
  /\ ~a.calls[2].ok

\* the string part occurs in the string whole
Occurs(part, whole) ==
  \E i \in 1..(Len(whole) - Len(part) + 1) :
    SubSeq(whole, i, i + Len(part) - 1) = part

\* the store was not called for the answer
StoreNotCalled(a) == \A i \in 1..Len(a.calls) : a.calls[i] # CallStoreEvent

\* C13: in the Vectorize variant a create or search whose provider call came
\* back with a non-success status S is answered with status S and a JSON error
\* body, for search with the provider's raw body in the message, and the store
\* is not called.
C13_ProviderStatusForwarded ==
  (variant = "vectorize" /\ ProviderFailed(last)) =>
    /\ last.resp.kind = "response"
    /\ last.resp.status = last.calls[2].status
    /\ last.resp.ctype = "application/json"
    /\ DOMAIN last.resp.body = {"error"}
    /\ last.resp.body.error.t = "str"
    /\ last.route = "search" => Occurs(last.calls[2].raw, last.resp.body.error.v)
    /\ StoreNotCalled(last)

\* a search the provider answered 429 'rate limited' was answered 429
C13_Witness ==
  /\ variant = "vectorize"
  /\ ProviderFailed(last)
  /\ last.route = "search"
  /\ last.calls[2].status = 429
  /\ last.resp.status = 429
  /\ last.resp.body.error = JStr("OpenAI API failed: rate limited")

\* C14: in the KV variant a create whose provider call came back with any
\* non-success status is answered 500 'Failed to generate embedding', and
\* nothing is written to the store.
C14_KvProviderFailureIs500 ==
  [][(variant = "kv" /\ last'.n = last.n + 1 /\ ProviderFailed(last')) =>
       /\ IsError(last', 500, "Failed to generate embedding")
       /\ StoreNotCalled(last')
       /\ store' = store]_vars

\* a create of the KV variant the provider answered 429 was answered 500
C14_Witness ==
  /\ variant = "kv"
  /\ ProviderFailed(last)
  /\ last.calls[2].status = 429
  /\ last.resp.status = 500

\* a delete of a non-empty id that the store carried out and that was answered
\* 200 with the message and the id
Deleted(a) ==
  /\ a.route = "delete"
  /\ Truthy(a.loc.id)
  /\ ~a.loc.fault
  /\ a.resp.kind = "response"
  /\ a.resp.status = 200
  /\ a.resp.body = [message |-> JStr("Embedding deleted successfully"),
                    id |-> a.loc.id]

\* C15: a delete of a non-empty id is answered 200 {message, id} whether or
\* not the id has a record, and leaves the store without a record of the id
\* and otherwise as it was; a delete that repeats the one answered just before
\* gives the same response and the same store; only a failure of the store is
\* answered 500 'Failed to delete embedding'.
C15_DeleteIdempotent ==
  [][(last'.n = last.n + 1 /\ last'.route = "delete" /\ Truthy(last'.loc.id)) =>
       IF last'.loc.fault
       THEN IsError(last', 500, "Failed to delete embedding") /\ store' = store
       ELSE /\ Deleted(last')
            /\ \A i \in IdSpace :
                 store'[i] = IF JStr(i) = last'.loc.id THEN NoRec ELSE store[i]
            /\ (Deleted(last) /\ last.loc.id = last'.loc.id) =>
                 (store' = store /\ last'.resp = last.resp)]_vars

\* a second request, a delete of i1, was answered 200 on a store with no record
C15_Witness ==
  /\ Deleted(last)
  /\ last.loc.id = JStr("i1")
  /\ last.n = 2
  /\ \A i \in IdSpace : store[i] = NoRec

\* a create that passed validation and is waiting for the provider
AwaitsProvider(p) ==
  inflight[p].pc = "provider" /\ inflight[p].route = "create"

\* C16: the one request a validated create sends to the provider has the body
\* {input: the request's text, model: 'text-embedding-3-small'} and the
\* Authorization header of the incoming request.
C16_ProviderRequest ==
  \A p \in Procs :
    AwaitsProvider(p) =>
      /\ inflight[p].calls = <<CallProviderEvent>>
      /\ inflight[p].loc.call =
           [authorization |-> inflight[p].req.auth.v,
            input |-> Prop(inflight[p].req.body, "text"),
            model |-> "text-embedding-3-small"]

\* the KV variant sent text "b" to the provider under the header 'Bearer k'
C16_Witness ==
  \E p \in Procs :
    /\ AwaitsProvider(p)
    /\ variant = "kv"
    /\ inflight[p].req.auth = JStr("Bearer k")
    /\ inflight[p].loc.call.authorization = "Bearer k"
    /\ inflight[p].loc.call.input = JStr("b")

\* C17: a successful create of the Vectorize variant responds 200 with the id,
\* a message and the merged metadata that was stored; the KV variant responds
\* with {id} only.
C17_CreateEchoesMetadata ==
  CreatedOk(last) =>
    IF variant = "vectorize"
    THEN /\ DOMAIN last.resp.body = {"id", "message", "metadata"}
         /\ last.resp.body.message.t = "str"
         /\ last.resp.body.metadata = JObj(store[last.resp.body.id.v].metadata)
    ELSE DOMAIN last.resp.body = {"id"}

\* a flag of a search request, with the value it has when the request omits it
Flag(a, name, dflt) == Truthy(Default(Prop(a.req.body, name), JBool(dflt)))

\* C18: each entry of a search result carries the match's metadata exactly
\* when includeMetadata is true or absent, its score exactly when
\* returnSimilarityScores is true or absent, and its vector values exactly when
\* includeValues is true.
C18_SearchFlags ==
  (last.route = "search" /\ last.resp.kind = "response" /\ last.resp.status = 200)
    => \A i \in 1..Len(last.resp.body.results.v) :
         LET entry == last.resp.body.results.v[i].v
         IN /\ ("metadata" \in DOMAIN entry) <=> Flag(last, "includeMetadata", TRUE)
            /\ ("score" \in DOMAIN entry) <=> Flag(last, "returnSimilarityScores", TRUE)
            /\ ("values" \in DOMAIN entry) <=> Flag(last, "includeValues", FALSE)

\* C19: a GET or DELETE of /embed/ with no id after it, dispatched to retrieve
\* or delete, is answered 400 'Missing ID parameter' and the store is not
\* called.
C19_MissingIdIs400 ==
  (last.route \in {"retrieve", "delete"} /\ last.req.path = <<"", "embed", "">>)
    => (IsError(last, 400, "Missing ID parameter") /\ last.calls = <<>>)

\* DELETE /embed/ was answered 400 without a call to the store
C19_Witness ==
  /\ last.req.method = "DELETE"
  /\ last.req.path = <<"", "embed", "">>
  /\ last.route = "delete"
  /\ last.resp.status = 400
  /\ last.calls = <<>>

\* the calls of a create or search so far: the provider first and once, the
\* store after it, once, and only when the provider returned a success status
ProviderThenStore(calls) ==
  /\ Len(calls) <= 3
  /\ Len(calls) >= 1 => calls[1] = CallProviderEvent
  /\ Len(calls) >= 2 => calls[2].e = "provider replied"
  /\ Len(calls) >= 3 => (calls[2].ok /\ calls[3] = CallStoreEvent)

\* the request was turned away by the validation of its header, body or id
Rejected(a) ==
  \/ IsError(a, 401, "Missing Authorization header")
  \/ IsError(a, 400, "Missing or invalid text field")
  \/ IsError(a, 400, "Missing or invalid query field")
  \/ IsError(a, 400, "Missing ID parameter")

\* C20: within one request the handler calls the provider at most once and the
\* store at most once, the store only after the provider returned a success
\* status; a request rejected with 401 or 400 calls no collaborator; a retrieve
\* or delete that is not rejected makes one store call and no provider call.
C20_CallOrder ==
  /\ \A p \in Procs :
       /\ inflight[p].pc = "provider" => inflight[p].calls = <<CallProviderEvent>>
       /\ inflight[p].pc = "store" =>
            (Len(inflight[p].calls) = 3 /\ ProviderThenStore(inflight[p].calls))
  /\ last.n > 0 =>
       /\ Rejected(last) => last.calls = <<>>
       /\ last.route \in {"create", "search"} =>
            (ProviderThenStore(last.calls) /\ Len(last.calls) # 1)
       /\ (last.route \in {"retrieve", "delete"} /\ ~Rejected(last)) =>
            last.calls = <<CallStoreEvent>>
       /\ last.route \in {"preflight", "notfound"} => last.calls = <<>>

\* a create was answered 200 after its provider call and then its store call
C20_Witness ==
  /\ CreatedOk(last)
  /\ Len(last.calls) = 3
  /\ last.calls[1] = CallProviderEvent
  /\ last.calls[2].ok
  /\ last.calls[3] = CallStoreEvent

\* a search that passed validation and the provider, and is at its store query
AtQuery(p) == inflight[p].pc = "store" /\ inflight[p].route = "search"

\* the vector in the provider's response of a record of calls
ProviderVector(calls) ==
  Prop(Elem(Prop(calls[2].body, "data"), 0), "embedding")

\* C21: a search that reaches the store queries it with the provider's vector
\* and the options {topK, returnMetadata: true}, plus filter only when the
\* request has one: topK is 5 when the request omits it, else the request's
\* value, and a filter mapping is passed on unchanged.
C21_QueryOptions ==
  \A p \in Procs :
    AtQuery(p) =>
      LET body == inflight[p].req.body.v
          options == inflight[p].loc.options
      IN /\ inflight[p].loc.embedding = ProviderVector(inflight[p].calls)
         /\ {"topK", "returnMetadata"} \subseteq DOMAIN options
         /\ DOMAIN options \subseteq {"topK", "returnMetadata", "filter"}
         /\ options.returnMetadata = JBool(TRUE)
         /\ options.topK = IF "topK" \in DOMAIN body THEN body.topK ELSE JNum(5)
         /\ "filter" \in DOMAIN options =>
              ("filter" \in DOMAIN body /\ options.filter = body.filter)
         /\ ("filter" \in DOMAIN body /\ body.filter.t = "obj") =>
              "filter" \in DOMAIN options

\* a search with topK 1 and the filter {category: "x"} is at its store query
\* with exactly these options
C21_Witness ==
  \E p \in Procs :
    /\ AtQuery(p)
    /\ inflight[p].loc.options =
         [topK |-> JNum(1), returnMetadata |-> JBool(TRUE),
          filter |-> JObj([category |-> JStr("x")])]

\* a search without topK and filter is at its store query with topK 5
C21_WitnessDefault ==
  \E p \in Procs :
    /\ AtQuery(p)
    /\ "topK" \notin DOMAIN inflight[p].req.body.v
    /\ inflight[p].loc.options = [topK |-> JNum(5), returnMetadata |-> JBool(TRUE)]

\* the ids whose record a step changes
Changed == {i \in IdSpace : store'[i] # store[i]}

\* a request whose answer is fixed by the request and what its record of locals
\* holds of the store's answer: the routes that do not wait for the provider
AnsweredAtOnce(a) ==
  \/ a.route \in {"preflight", "notfound", "delete"}
  \/ a.route = "retrieve" /\ Rejected(a)
  \/ a.route \in {"create", "search"} /\ a.calls = <<>>

\* C22: the store changes only in the step that answers a create with 200,
\* which writes the one record of the returned id, or a delete with 200, which
\* removes the one named id; preflight, unmatched, retrieve, search, rejected
\* requests and creates whose provider call failed leave it unchanged.  The
\* handler keeps nothing between requests: a request that repeats the one
\* answered before it, on the same store contents and with the same answers of
\* the collaborators, gets the same response.
C22_OnlyCreateAndDeleteWrite ==
  [][/\ Changed # {} =>
          /\ last'.n = last.n + 1
          /\ \/ CreatedOk(last') /\ Changed = {last'.resp.body.id.v}
             \/ Deleted(last') /\ Changed = {last'.loc.id.v}
                  /\ store'[last'.loc.id.v] = NoRec
     /\ (/\ last'.n = last.n + 1
         /\ last'.req = last.req
         /\ last'.route = last.route
         /\ last'.loc = last.loc
         /\ AnsweredAtOnce(last') \/ (last'.route = "retrieve" /\ Changed = {}))
          => last'.resp = last.resp]_vars

\* a create whose provider call failed was answered, and the store still holds
\* the one earlier record
C22_Witness ==
  /\ last.route = "create"
  /\ ProviderFailed(last)
  /\ store["i1"] # NoRec
  /\ store["i2"] = NoRec

\* a retrieve of the Vectorize variant whose store call returned
Retrieved(a) ==
  /\ variant = "vectorize"
  /\ a.route = "retrieve"
  /\ NamedId(a)
  /\ ~a.loc.fault

\* the response is 200 with the whole of the record: its id, text, embedding
\* and timestamp
WholeRecord(resp, rec) ==
  /\ resp.kind = "response"
  /\ resp.status = 200
  /\ Prop(JObj(resp.body), "id") = JStr(rec.id)
  /\ Prop(JObj(resp.body), "text") = rec.metadata.text
  /\ Prop(JObj(resp.body), "embedding") = rec.values
  /\ Prop(JObj(resp.body), "timestamp") = rec.metadata.timestamp

\* C23: a delete and a retrieve of the same id, each with its one store call, in
\* either order: the retrieve is answered 404 'Embedding not found' when the
\* record is gone and 200 with the whole prior record when it is still there,
\* never a part of it or a 500; the delete is answered 200; after both the
\* record is gone.
C23_DeleteRetrieveRace ==
  [][last'.n = last.n + 1 =>
       /\ Retrieved(last') =>
            IF store[last'.loc.id.v] = NoRec
            THEN IsError(last', 404, "Embedding not found")
            ELSE WholeRecord(last'.resp, store[last'.loc.id.v])
       /\ (last'.route = "delete" /\ NamedId(last') /\ ~last'.loc.fault) =>
            (Deleted(last') /\ store'[last'.loc.id.v] = NoRec)
       /\ (Deleted(last) /\ Retrieved(last') /\ last'.loc.id = last.loc.id) =>
            (IsError(last', 404, "Embedding not found")
               /\ store'[last'.loc.id.v] = NoRec)
       /\ (Retrieved(last) /\ Deleted(last') /\ last'.loc.id = last.loc.id) =>
            store'[last'.loc.id.v] = NoRec]_vars

\* the second request, a retrieve of i1 after its record was removed, was
\* answered 404
C23_Witness ==
  /\ Retrieved(last)
  /\ last.loc.id = JStr("i1")
  /\ last.n = 2
  /\ store["i1"] = NoRec
  /\ made["i1"] = NoRec
  /\ IsError(last, 404, "Embedding not found")

====
